---- MODULE Spec2Model ----
(***************************************************************************)
(* A model of the WebRTC-to-ROS bridge client: the session negotiator      *)
(* (handleSignalingMessage and the OnICECandidate callback of              *)
(* PeerConnectionChannel), the signaling session (SignalingChannel.Spin    *)
(* and its reader goroutine) and the two VP8 ingestion paths               *)
(* (WebmSaver.PushVP8 and the OnTrack callback).                           *)
(*                                                                         *)
(* Go channels are modelled as slots holding at most one value (a sequence *)
(* of length <= 1): a sender puts its value in the empty slot and takes no *)
(* further step until a receiver has taken it (an unbuffered channel).     *)
(***************************************************************************)
EXTENDS Integers, Sequences, FiniteSets, TLC

VARIABLES
    \* ---- PeerConnectionChannel (session negotiator) ----
    remoteDescription,   \* peerConnection.RemoteDescription(): 0 is nil, else the offer
    localDescription,    \* the engine's local description: <<>> is nil, else <<answer>>
    pendingCandidates,   \* pc.pendingCandidates
    candidatesMux,       \* pc.candidatesMux: "free", or the holder
    dpc,                 \* position of the handleSignalingMessage goroutine
    dsdp,                \* the sdp received by the dispatcher
    danswer,             \* the answer created by the dispatcher
    flushIdx,            \* index of the range loop over pendingCandidates
    cpc,                 \* position of the OnICECandidate callback
    cc,                  \* the candidate the callback was invoked with
    cdesc,               \* desc, as read by the callback
    cafter,              \* the remote description was set when the callback was invoked
    signalled,           \* every call of pc.signalCandidate, in call order
    nDiscovered,         \* local candidates discovered so far
    gatheringDone,       \* the engine has reported the end of gathering (c == nil)
    engineCandidates,    \* remote candidates applied with AddICECandidate
    dlog,                \* steps of the dispatcher in its current sdp event
    nEvents,             \* sdp events taken by the dispatcher
    crashed,             \* the process has panicked or exited
    \* ---- channels between SignalingChannel and PeerConnectionChannel ----
    sdpChan, sdpReplyChan, candidateChan,
    nOffers, nRemote,    \* values the environment has put on sdpChan / candidateChan
    \* ---- the signaling transport (websocket) ----
    out,                 \* every message written to the transport, in write order
    wsWriters,           \* the tasks that are inside c.WriteMessage
    \* ---- the negotiation engine's connection ----
    connState,           \* the state last passed to OnConnectionStateChange
    \* ---- SignalingChannel (signaling session) ----
    spc,                 \* position of SignalingChannel.Spin
    rpc,                 \* position of the reader goroutine
    rmsg,                \* the message the reader goroutine holds
    recv,                \* s.recv
    nIn,                 \* messages read from the transport so far
    sanswer,             \* answer, as received on sdpReplyChan
    scand,               \* iceCandidate, as decoded in the relay loop
    consumed,            \* every message Spin received from s.recv, in order
    sdpSent,             \* every value Spin sent on sdpChan, in order
    candSent,            \* every value Spin sent on candidateChan, in order
    envTaken,            \* offers the peer of the session has taken from sdpChan
    envAnswered,         \* answers the peer of the session has put on sdpReplyChan
    \* ---- WebmSaver (PushVP8) ----
    vpc,                 \* position of PushVP8
    sample,              \* sample, as popped from the sample builder
    codecCreated,        \* s.codecCreated
    decoderInit,         \* every init_decoder call of InitWriter: (width, height)
    decodeCalls,         \* every decode_frame call of PushVP8, in order
    keySeen,             \* a keyframe sample has been popped
    avail,               \* images the decoder holds for vpx_codec_get_frame
    imgChan,             \* every image sent on s.imgChan, in order
    nPushed,             \* packets pushed into the sample builder
    nSamples,            \* samples popped from the sample builder
    \* ---- OnTrack callback (direct ingestion) ----
    tpc,                 \* position of the OnTrack callback
    codec,               \* codec: <<>> before init_decoder, else <<(width, height)>>
    currentFrame,        \* currentFrame: the packets whose payload it holds
    currentNil,          \* currentFrame == nil
    seenKeyFrame,        \* seenKeyFrame
    frameCount,          \* frameCount
    tavail,              \* images the decoder holds for vpx_codec_get_frame
    rtpLog,              \* every packet ReadRTP returned: sequence number and marker
    nSkipped,            \* packets dropped by the switch of lines 326-331
    submitted,           \* every decode_frame call of the callback, in order
    frameStartS,         \* S bit of the first fragment in currentFrame (-1: none)
    nLost                \* packets the network lost

negVars == <<remoteDescription, localDescription, pendingCandidates, candidatesMux,
             dpc, dsdp, danswer, flushIdx, cpc, cc, cdesc, cafter, signalled,
             nDiscovered, gatheringDone, engineCandidates, dlog, nEvents>>
chanVars == <<sdpChan, sdpReplyChan, candidateChan, nOffers, nRemote>>

wsVars == <<out, wsWriters>>

sigVars == <<spc, rpc, rmsg, recv, nIn, sanswer, scand, consumed, sdpSent, candSent,
             envTaken, envAnswered>>

vp8Vars == <<vpc, sample, codecCreated, decoderInit, decodeCalls, keySeen, avail, imgChan,
             nPushed, nSamples>>

trkVars == <<tpc, codec, currentFrame, currentNil, seenKeyFrame, frameCount, tavail,
             rtpLog, nSkipped, submitted, frameStartS, nLost>>

vars == <<negVars, crashed, chanVars, wsVars, connState, sigVars, vp8Vars, trkVars>>

\* What the steps of one component leave alone in the others.
negFrame == <<sigVars, vp8Vars, trkVars>>
sigFrame == <<negVars, crashed, vp8Vars, trkVars>>
vp8Frame == <<negVars, chanVars, wsVars, connState, sigVars, trkVars>>
trkFrame == <<negVars, chanVars, wsVars, connState, sigVars, vp8Vars>>

\* ------------------------------------------------------------------ bounds
MaxCands == 3      \* local candidates the engine discovers
MaxOffers == 2     \* remote descriptions put on the offer channel
MaxRemote == 1     \* remote candidates put on the candidate channel
MaxIn == 3         \* messages the transport delivers
MaxSegs == 4       \* segments an answer body is made of
MaxPush == 2       \* packets pushed into PushVP8
MaxSamples == 3    \* samples the sample builder pops
MaxImages == 2     \* images the decoder holds after one decode
MaxPackets == 5    \* packets the track delivers
MaxLost == 1       \* packets the network loses

\* ------------------------------------------------------------------ helpers
Range(s) == {s[i] : i \in 1..Len(s)}

\* Character strings are sequences of one-character strings.
Video == <<"m", "=", "v", "i", "d", "e", "o", " ">>
OldPort == Video \o <<"0">>
NewPort == Video \o <<"9">>

\* Answers the negotiation engine may create: with and without a video media line
\* that carries the placeholder port.
EngineAnswers == {<<"x">> \o OldPort, <<"x">>}

\* ---------------------------------------------------- PeerConnectionChannel
NegInit ==
    /\ remoteDescription = 0
    /\ localDescription = <<>>
    /\ pendingCandidates = <<>>
    /\ candidatesMux = "free"
    /\ dpc = "select"
    /\ dsdp = 0
    /\ danswer = <<>>
    /\ flushIdx = 0
    /\ cpc = "idle"
    /\ cc = 0
    /\ cdesc = 0
    /\ cafter = FALSE
    /\ signalled = <<>>
    /\ nDiscovered = 0
    /\ gatheringDone = FALSE
    /\ engineCandidates = <<>>
    /\ dlog = <<>>
    /\ nEvents = 0

ChanInit ==
    /\ sdpChan = <<>>
    /\ sdpReplyChan = <<>>
    /\ candidateChan = <<>>
    /\ nOffers = 0
    /\ nRemote = 0

\* c.WriteMessage(websocket.TextMessage, payload), called by task: the message goes
\* to the transport and the task is inside the call until it returns. Nothing in
\* the program orders the calls of different tasks.
WriteMessage(task, msg) ==
    /\ out' = Append(out, msg)
    /\ wsWriters' = wsWriters \cup {task}

\* c.WriteMessage returns to task.
WriteMessageReturn(task) ==
    /\ ~crashed /\ task \in wsWriters
    /\ wsWriters' = wsWriters \ {task}
    /\ UNCHANGED <<negVars, crashed, chanVars, out, connState, sigVars>>

\* SignalingChannel.SignalCandidate, called by task: marshal the candidate message
\* and write it to the transport; the result of the write is dropped and nil is
\* returned.
SignalCandidate(c, task) ==
    WriteMessage(task, [type |-> "ice_candidate", body |-> <<>>, candidate |-> c])

\* pc.signalCandidate(c.ToJSON()): one call, recorded with its caller.
signalCandidate(c, caller) ==
    /\ signalled' = Append(signalled, [c |-> c, by |-> caller])
    /\ SignalCandidate(c, caller)

\* The statements of the sdp case of handleSignalingMessage, in program order.
DispatcherOrderSwapped ==
    <<"setRemote", "createAnswer", "setLocal", "publish", "lock", "flush", "unlock">>

DispatcherOrder ==
    <<"setRemote", "createAnswer", "publish", "setLocal", "lock", "flush", "unlock">>

\* The statement that follows statement s of the sdp case.
AfterStep(s) ==
    LET i == CHOOSE k \in 1..Len(DispatcherOrder) : DispatcherOrder[k] = s
    IN IF i = Len(DispatcherOrder) THEN "select" ELSE DispatcherOrder[i + 1]

\* The dispatcher goroutine runs unless the process is gone, it is blocked in
\* its send on sdpReplyChan or it is inside a write of its flush.
DispatcherRuns == ~crashed /\ sdpReplyChan = <<>> /\ "flush" \notin wsWriters

\* case sdp := <-pc.sdpChan
DispRecvSdp ==
    /\ DispatcherRuns /\ dpc = "select"
    /\ sdpChan # <<>>
    /\ dsdp' = sdpChan[1]
    /\ sdpChan' = <<>>
    /\ dpc' = DispatcherOrder[1]
    /\ dlog' = <<>>
    /\ nEvents' = nEvents + 1
    /\ UNCHANGED <<remoteDescription, localDescription, pendingCandidates, candidatesMux,
                   danswer, flushIdx, cpc, cc, cdesc, cafter, signalled, nDiscovered,
                   gatheringDone, engineCandidates, crashed,
                   sdpReplyChan, candidateChan, nOffers, nRemote, out, wsWriters, connState>>

\* err := pc.peerConnection.SetRemoteDescription(sdp); panic on error. The engine
\* rejects the zero description.
DispSetRemote ==
    /\ DispatcherRuns /\ dpc = "setRemote"
    /\ \E ok \in BOOLEAN :
         IF ok /\ dsdp # 0
         THEN /\ remoteDescription' = dsdp
              /\ dpc' = AfterStep("setRemote")
              /\ dlog' = Append(dlog, "setRemote")
              /\ UNCHANGED crashed
         ELSE /\ crashed' = TRUE
              /\ UNCHANGED <<remoteDescription, dpc, dlog, out, wsWriters, connState>>
    /\ UNCHANGED <<localDescription, pendingCandidates, candidatesMux, dsdp, danswer,
                   flushIdx, cpc, cc, cdesc, cafter, signalled, nDiscovered, gatheringDone,
                   engineCandidates, nEvents, chanVars, out, wsWriters, connState>>

\* answer, err := pc.peerConnection.CreateAnswer(nil); panic on error
DispCreateAnswer ==
    /\ DispatcherRuns /\ dpc = "createAnswer"
    /\ \/ /\ \E a \in EngineAnswers : danswer' = <<a>>
          /\ dpc' = AfterStep("createAnswer")
          /\ dlog' = Append(dlog, "createAnswer")
          /\ UNCHANGED crashed
       \/ /\ crashed' = TRUE
          /\ UNCHANGED <<danswer, dpc, dlog, out, wsWriters, connState>>
    /\ UNCHANGED <<remoteDescription, localDescription, pendingCandidates, candidatesMux,
                   dsdp, flushIdx, cpc, cc, cdesc, cafter, signalled, nDiscovered, gatheringDone,
                   engineCandidates, nEvents, chanVars, out, wsWriters, connState>>

\* pc.sdpReplyChan <- answer
DispPublish ==
    /\ DispatcherRuns /\ dpc = "publish"
    /\ sdpReplyChan' = danswer
    /\ dpc' = AfterStep("publish")
    /\ dlog' = Append(dlog, "publish")
    /\ UNCHANGED <<remoteDescription, localDescription, pendingCandidates, candidatesMux,
                   dsdp, danswer, flushIdx, cpc, cc, cdesc, cafter, signalled, nDiscovered,
                   gatheringDone, engineCandidates, nEvents, crashed,
                   sdpChan, candidateChan, nOffers, nRemote, out, wsWriters, connState>>

\* err = pc.peerConnection.SetLocalDescription(answer); panic on error
DispSetLocal ==
    /\ DispatcherRuns /\ dpc = "setLocal"
    /\ \E ok \in BOOLEAN :
         IF ok
         THEN /\ localDescription' = danswer
              /\ dpc' = AfterStep("setLocal")
              /\ dlog' = Append(dlog, "setLocal")
              /\ UNCHANGED crashed
         ELSE /\ crashed' = TRUE
              /\ UNCHANGED <<localDescription, dpc, dlog, out, wsWriters, connState>>
    /\ UNCHANGED <<remoteDescription, pendingCandidates, candidatesMux, dsdp, danswer,
                   flushIdx, cpc, cc, cdesc, cafter, signalled, nDiscovered, gatheringDone,
                   engineCandidates, nEvents, chanVars, out, wsWriters, connState>>

\* The dispatcher goes on to its flush without taking the lock.
DispLockSkipped ==
    /\ DispatcherRuns /\ dpc = "lock"
    /\ flushIdx' = 1
    /\ dpc' = AfterStep("lock")
    /\ dlog' = Append(dlog, "lock")
    /\ UNCHANGED <<remoteDescription, localDescription, pendingCandidates, candidatesMux,
                   dsdp, danswer, cpc, cc, cdesc, cafter, signalled, nDiscovered,
                   gatheringDone, engineCandidates, nEvents, crashed, chanVars, out,
                   wsWriters, connState>>

\* pc.candidatesMux.Lock()
DispLock ==
    /\ DispatcherRuns /\ dpc = "lock"
    /\ candidatesMux = "free"
    /\ candidatesMux' = "dispatcher"
    /\ flushIdx' = 1
    /\ dpc' = AfterStep("lock")
    /\ dlog' = Append(dlog, "lock")
    /\ UNCHANGED <<remoteDescription, localDescription, pendingCandidates, dsdp, danswer,
                   cpc, cc, cdesc, cafter, signalled, nDiscovered, gatheringDone,
                   engineCandidates, nEvents, crashed, chanVars, out, wsWriters, connState>>

\* for _, c := range pc.pendingCandidates { pc.signalCandidate(c.ToJSON()) }
DispFlush ==
    /\ DispatcherRuns /\ dpc = "flush"
    /\ IF flushIdx <= Len(pendingCandidates)
       THEN /\ signalCandidate(pendingCandidates[flushIdx], "flush")
            /\ flushIdx' = flushIdx + 1
            /\ dlog' = Append(dlog, "flush")
            /\ UNCHANGED dpc
       ELSE /\ dpc' = AfterStep("flush")
            /\ UNCHANGED <<signalled, flushIdx, dlog, out, wsWriters, connState>>
    /\ UNCHANGED <<remoteDescription, localDescription, pendingCandidates, candidatesMux,
                   dsdp, danswer, cpc, cc, cdesc, cafter, nDiscovered, gatheringDone,
                   engineCandidates, nEvents, crashed, chanVars, connState>>

\* pc.candidatesMux.Unlock()
DispUnlock ==
    /\ DispatcherRuns /\ dpc = "unlock"
    /\ candidatesMux' = "free"
    /\ dpc' = AfterStep("unlock")
    /\ dlog' = Append(dlog, "unlock")
    /\ UNCHANGED <<remoteDescription, localDescription, pendingCandidates, dsdp, danswer,
                   flushIdx, cpc, cc, cdesc, cafter, signalled, nDiscovered, gatheringDone,
                   engineCandidates, nEvents, crashed, chanVars, out, wsWriters, connState>>

\* Remote candidates are applied by a task of their own, whatever the dispatcher
\* is doing.
DispAddCandidateConcurrent ==
    /\ ~crashed
    /\ candidateChan # <<>>
    /\ candidateChan' = <<>>
    /\ \E ok \in BOOLEAN :
         IF ok /\ remoteDescription # 0
         THEN /\ engineCandidates' = Append(engineCandidates, candidateChan[1])
              /\ UNCHANGED crashed
         ELSE /\ crashed' = TRUE
              /\ UNCHANGED engineCandidates
    /\ UNCHANGED <<remoteDescription, localDescription, pendingCandidates, candidatesMux,
                   dpc, dsdp, danswer, flushIdx, cpc, cc, cdesc, cafter, signalled, nDiscovered,
                   gatheringDone, dlog, nEvents, sdpChan, sdpReplyChan, nOffers, nRemote, out,
                   wsWriters, connState>>

\* case candidate := <-pc.candidateChan: AddICECandidate(candidate); panic on error.
\* The engine rejects a remote candidate while it has no remote description.
DispAddCandidate ==
    /\ DispatcherRuns /\ dpc = "select"
    /\ candidateChan # <<>>
    /\ candidateChan' = <<>>
    /\ \E ok \in BOOLEAN :
         IF ok /\ remoteDescription # 0
         THEN /\ engineCandidates' = Append(engineCandidates, candidateChan[1])
              /\ UNCHANGED crashed
         ELSE /\ crashed' = TRUE
              /\ UNCHANGED engineCandidates
    /\ UNCHANGED <<remoteDescription, localDescription, pendingCandidates, candidatesMux,
                   dpc, dsdp, danswer, flushIdx, cpc, cc, cdesc, cafter, signalled, nDiscovered,
                   gatheringDone, dlog, nEvents, sdpChan, sdpReplyChan, nOffers, nRemote, out, wsWriters, connState>>

handleSignalingMessage ==
    \/ DispRecvSdp
    \/ DispSetRemote
    \/ DispCreateAnswer
    \/ DispPublish
    \/ DispSetLocal
    \/ DispLock
    \/ DispFlush
    \/ DispUnlock
    \/ DispAddCandidate

\* ----------------------------------------------------- OnICECandidate callback
\* The callback runs unless the process is gone or it is inside a write.
CallbackRuns == ~crashed /\ "callback" \notin wsWriters

\* The engine invokes the callback with a newly discovered candidate; candidates
\* are numbered in discovery order.
CallbackInvoke ==
    /\ CallbackRuns /\ cpc = "idle" /\ ~gatheringDone
    /\ nDiscovered < MaxCands
    /\ nDiscovered' = nDiscovered + 1
    /\ cc' = nDiscovered + 1
    /\ cafter' = (remoteDescription # 0)
    /\ cpc' = "lock"
    /\ UNCHANGED <<remoteDescription, localDescription, pendingCandidates, candidatesMux,
                   dpc, dsdp, danswer, flushIdx, cdesc, signalled, gatheringDone,
                   engineCandidates, dlog, nEvents, crashed, chanVars, out, wsWriters, connState>>

\* if c == nil { return }: the engine reports the end of gathering.
CallbackNil ==
    /\ CallbackRuns /\ cpc = "idle" /\ ~gatheringDone
    /\ gatheringDone' = TRUE
    /\ UNCHANGED <<remoteDescription, localDescription, pendingCandidates, candidatesMux,
                   dpc, dsdp, danswer, flushIdx, cpc, cc, cdesc, cafter, signalled, nDiscovered,
                   engineCandidates, dlog, nEvents, crashed, chanVars, out, wsWriters, connState>>

\* The callback goes on without taking the lock.
CallbackLockSkipped ==
    /\ CallbackRuns /\ cpc = "lock"
    /\ cpc' = "read"
    /\ UNCHANGED <<remoteDescription, localDescription, pendingCandidates, candidatesMux,
                   dpc, dsdp, danswer, flushIdx, cc, cdesc, cafter, signalled, nDiscovered,
                   gatheringDone, engineCandidates, dlog, nEvents, crashed, chanVars, out, wsWriters, connState>>

\* pc.candidatesMux.Lock()
CallbackLock ==
    /\ CallbackRuns /\ cpc = "lock"
    /\ candidatesMux = "free"
    /\ candidatesMux' = "callback"
    /\ cpc' = "read"
    /\ UNCHANGED <<remoteDescription, localDescription, pendingCandidates,
                   dpc, dsdp, danswer, flushIdx, cc, cdesc, cafter, signalled, nDiscovered,
                   gatheringDone, engineCandidates, dlog, nEvents, crashed, chanVars, out, wsWriters, connState>>

\* desc := pc.peerConnection.RemoteDescription()
CallbackRead ==
    /\ CallbackRuns /\ cpc = "read"
    /\ cdesc' = remoteDescription
    /\ cpc' = "branch"
    /\ UNCHANGED <<remoteDescription, localDescription, pendingCandidates, candidatesMux,
                   dpc, dsdp, danswer, flushIdx, cc, cafter, signalled, nDiscovered,
                   gatheringDone, engineCandidates, dlog, nEvents, crashed, chanVars, out, wsWriters, connState>>

\* The callback appends whatever it read.
CallbackBranchAlwaysAppend ==
    /\ CallbackRuns /\ cpc = "branch"
    /\ pendingCandidates' = Append(pendingCandidates, cc)
    /\ cpc' = "unlock"
    /\ UNCHANGED <<remoteDescription, localDescription, candidatesMux,
                   dpc, dsdp, danswer, flushIdx, cc, cdesc, cafter, signalled, nDiscovered,
                   gatheringDone, engineCandidates, dlog, nEvents, crashed, chanVars, out, wsWriters, connState>>

\* if desc == nil { append } else if err := pc.signalCandidate(c.ToJSON()); ...
CallbackBranch ==
    /\ CallbackRuns /\ cpc = "branch"
    /\ IF cdesc = 0
       THEN /\ pendingCandidates' = Append(pendingCandidates, cc)
            /\ UNCHANGED <<signalled, out, wsWriters, connState>>
       ELSE /\ signalCandidate(cc, "callback")
            /\ UNCHANGED pendingCandidates
    /\ cpc' = "unlock"
    /\ UNCHANGED <<remoteDescription, localDescription, candidatesMux,
                   dpc, dsdp, danswer, flushIdx, cc, cdesc, cafter, nDiscovered,
                   gatheringDone, engineCandidates, dlog, nEvents, crashed, chanVars, connState>>

\* defer pc.candidatesMux.Unlock()
CallbackUnlock ==
    /\ CallbackRuns /\ cpc = "unlock"
    /\ candidatesMux' = "free"
    /\ cpc' = "idle"
    /\ UNCHANGED <<remoteDescription, localDescription, pendingCandidates,
                   dpc, dsdp, danswer, flushIdx, cc, cdesc, cafter, signalled, nDiscovered,
                   gatheringDone, engineCandidates, dlog, nEvents, crashed, chanVars, out, wsWriters, connState>>

OnICECandidate ==
    \/ CallbackInvoke
    \/ CallbackNil
    \/ CallbackLock
    \/ CallbackRead
    \/ CallbackBranch
    \/ CallbackUnlock

\* ------------------------------------------------ OnConnectionStateChange
\* The states the engine may pass to the callback: the two on which it exits, and
\* connected for the states on which it only logs (connecting, disconnected).
PeerConnectionStates == {"connected", "failed", "closed"}

\* The callback logs the state and returns, whatever the state.
OnConnectionStateChangeLogOnly ==
    /\ ~crashed
    /\ \E state \in PeerConnectionStates \ {connState} : connState' = state
    /\ UNCHANGED <<negVars, crashed, chanVars, wsVars>>

\* The callback logs the state; on failed and on closed it calls os.Exit(0),
\* which ends the process and every goroutine in it.
OnConnectionStateChange ==
    /\ ~crashed
    /\ \E state \in PeerConnectionStates \ {connState} :
         /\ connState' = state
         /\ crashed' = (state \in {"failed", "closed"})
    /\ UNCHANGED <<negVars, chanVars, wsVars>>

\* ------------------------------------------- the negotiator's environment
\* A producer puts a session description on the offer channel.
EnvOffer ==
    /\ ~crashed /\ sdpChan = <<>> /\ nOffers < MaxOffers
    /\ nOffers' = nOffers + 1
    /\ sdpChan' = <<nOffers + 1>>
    /\ UNCHANGED <<negVars, crashed, sdpReplyChan, candidateChan, nRemote, out, wsWriters, connState>>

\* A producer puts a remote candidate on the candidate channel.
EnvCandidate ==
    /\ ~crashed /\ candidateChan = <<>> /\ nRemote < MaxRemote
    /\ nRemote' = nRemote + 1
    /\ candidateChan' = <<nRemote + 1>>
    /\ UNCHANGED <<negVars, crashed, sdpChan, sdpReplyChan, nOffers, out, wsWriters, connState>>

\* The consumer of the reply channel takes the answer.
EnvTakeAnswer ==
    /\ ~crashed /\ sdpReplyChan # <<>>
    /\ sdpReplyChan' = <<>>
    /\ UNCHANGED <<negVars, crashed, sdpChan, candidateChan, nOffers, nRemote, out, wsWriters, connState>>

NegNext ==
    \/ DispRecvSdp /\ UNCHANGED negFrame
    \/ DispSetRemote /\ UNCHANGED negFrame
    \/ DispCreateAnswer /\ UNCHANGED negFrame
    \/ DispPublish /\ UNCHANGED negFrame
    \/ DispSetLocal /\ UNCHANGED negFrame
    \/ DispLock /\ UNCHANGED negFrame
    \/ DispFlush /\ UNCHANGED negFrame
    \/ DispUnlock /\ UNCHANGED negFrame
    \/ DispAddCandidate /\ UNCHANGED negFrame
    \/ CallbackInvoke /\ UNCHANGED negFrame
    \/ CallbackNil /\ UNCHANGED negFrame
    \/ CallbackLock /\ UNCHANGED negFrame
    \/ CallbackRead /\ UNCHANGED negFrame
    \/ CallbackBranch /\ UNCHANGED negFrame
    \/ CallbackUnlock /\ UNCHANGED negFrame
    \/ WriteMessageReturn("flush") /\ UNCHANGED <<vp8Vars, trkVars>>
    \/ WriteMessageReturn("callback") /\ UNCHANGED <<vp8Vars, trkVars>>
    \/ EnvOffer /\ UNCHANGED negFrame
    \/ EnvCandidate /\ UNCHANGED negFrame
    \/ EnvTakeAnswer /\ UNCHANGED negFrame

\* ------------------------------------------------------- SignalingChannel
SigInit ==
    /\ spc = "configure"
    /\ rpc = "read"
    /\ rmsg = <<>>
    /\ recv = <<>>
    /\ nIn = 0
    /\ sanswer = <<>>
    /\ scand = 0
    /\ consumed = <<>>
    /\ sdpSent = <<>>
    /\ candSent = <<>>
    /\ envTaken = 0
    /\ envAnswered = 0

\* The text records the transport may deliver as its k-th message: well-formed
\* JSON or not, of either record type; val identifies the record.
Msgs(k) == [wf : BOOLEAN, typ : {"offer", "ice_candidate"}, val : {k}]

\* json.Unmarshal(recvRaw, &sdp): fails on malformed JSON; fields the record
\* does not carry stay zero.
UnmarshalSdp(m) ==
    [ok |-> m.wf, sdp |-> IF m.wf /\ m.typ = "offer" THEN m.val ELSE 0]

\* json.Unmarshal(candidateRaw, &candidateJSON)
UnmarshalCandidate(m) ==
    [ok |-> m.wf, candidate |-> IF m.wf /\ m.typ = "ice_candidate" THEN m.val ELSE 0]

\* Spin runs unless the process is gone or it is inside a write.
SpinRuns == ~crashed /\ "spin" \notin wsWriters

\* strings.Index(s, old), 1-based from position i on; 0 when old does not occur.
RECURSIVE IndexFrom(_, _, _)
IndexFrom(s, old, i) ==
    IF i + Len(old) - 1 > Len(s) THEN 0
    ELSE IF SubSeq(s, i, i + Len(old) - 1) = old THEN i
    ELSE IndexFrom(s, old, i + 1)

\* strings.Replace(s, old, new, n) for a non-empty old: the first n occurrences
\* of old, left to right and not overlapping, replaced by new; all when n < 0.
RECURSIVE StringsReplace(_, _, _, _)
StringsReplace(s, old, new, n) ==
    LET i == IndexFrom(s, old, 1)
    IN IF n = 0 \/ i = 0 THEN s
       ELSE SubSeq(s, 1, i - 1) \o new
            \o StringsReplace(SubSeq(s, i + Len(old), Len(s)), old, new, n - 1)

\* Every occurrence is rewritten.
PatchAnswerAll(sdp) == StringsReplace(sdp, OldPort, NewPort, -1)

\* answer.SDP = strings.Replace(answer.SDP, "m=video 0", "m=video 9", 1)
PatchAnswer(sdp) == StringsReplace(sdp, OldPort, NewPort, 1)

\* The reader goroutine: c.ReadMessage() returns the next message. It is blocked
\* in its send on s.recv until Spin has received; the connection is closed once
\* Spin has returned (defer c.Close()).
ReaderRead ==
    /\ ~crashed /\ rpc = "read" /\ recv = <<>> /\ spc # "closed"
    /\ nIn < MaxIn
    /\ \E m \in Msgs(nIn + 1) : rmsg' = <<m>>
    /\ nIn' = nIn + 1
    /\ rpc' = "send"
    /\ UNCHANGED <<spc, recv, sanswer, scand, consumed, sdpSent, candSent,
                   envTaken, envAnswered, chanVars, out, wsWriters, connState>>

\* c.ReadMessage() fails: the goroutine logs and returns, leaving s.recv open.
ReaderFail ==
    /\ ~crashed /\ rpc = "read" /\ recv = <<>>
    /\ rpc' = "exited"
    /\ UNCHANGED <<spc, rmsg, recv, nIn, sanswer, scand, consumed, sdpSent, candSent,
                   envTaken, envAnswered, chanVars, out, wsWriters, connState>>

\* s.recv <- message
ReaderSend ==
    /\ ~crashed /\ rpc = "send"
    /\ recv' = rmsg
    /\ rpc' = "read"
    /\ UNCHANGED <<spc, rmsg, nIn, sanswer, scand, consumed, sdpSent, candSent,
                   envTaken, envAnswered, chanVars, out, wsWriters, connState>>

\* cfgMessage, err := toTextMessage(s.composeActions()); return on error;
\* c.WriteMessage(websocket.TextMessage, cfgMessage)
SpinConfigure ==
    /\ SpinRuns /\ spc = "configure"
    /\ \E ok \in BOOLEAN :
         IF ok
         THEN /\ WriteMessage("spin", [type |-> "configure", body |-> <<>>,
                                        candidate |-> 0])
              /\ spc' = "awaitOffer"
         ELSE /\ spc' = "closed"
              /\ UNCHANGED <<out, wsWriters>>
    /\ UNCHANGED <<rpc, rmsg, recv, nIn, sanswer, scand, consumed, sdpSent, candSent,
                   envTaken, envAnswered, chanVars, connState>>

\* The session goes on to the relay loop without the answer phase.
SpinAwaitOfferNoAnswer ==
    /\ SpinRuns /\ spc = "awaitOffer"
    /\ recv # <<>>
    /\ recv' = <<>>
    /\ consumed' = Append(consumed, recv[1])
    /\ IF UnmarshalSdp(recv[1]).ok
       THEN /\ sdpChan' = <<UnmarshalSdp(recv[1]).sdp>>
            /\ sdpSent' = Append(sdpSent, UnmarshalSdp(recv[1]).sdp)
            /\ spc' = "relay"
       ELSE /\ spc' = "closed"
            /\ UNCHANGED <<sdpChan, sdpSent>>
    /\ UNCHANGED <<rpc, rmsg, nIn, sanswer, scand, candSent, envTaken, envAnswered,
                   sdpReplyChan, candidateChan, nOffers, nRemote, out, wsWriters, connState>>

\* recvRaw := <-s.recv; json.Unmarshal(recvRaw, &sdp); return on error;
\* s.sdpChan <- sdp
SpinAwaitOffer ==
    /\ SpinRuns /\ spc = "awaitOffer"
    /\ recv # <<>>
    /\ recv' = <<>>
    /\ consumed' = Append(consumed, recv[1])
    /\ IF UnmarshalSdp(recv[1]).ok
       THEN /\ sdpChan' = <<UnmarshalSdp(recv[1]).sdp>>
            /\ sdpSent' = Append(sdpSent, UnmarshalSdp(recv[1]).sdp)
            /\ spc' = "awaitAnswer"
       ELSE /\ spc' = "closed"
            /\ UNCHANGED <<sdpChan, sdpSent>>
    /\ UNCHANGED <<rpc, rmsg, nIn, sanswer, scand, candSent, envTaken, envAnswered,
                   sdpReplyChan, candidateChan, nOffers, nRemote, out, wsWriters, connState>>

\* answer := <-s.sdpReplyChan, once the send on sdpChan has been received
SpinAwaitAnswer ==
    /\ SpinRuns /\ spc = "awaitAnswer"
    /\ sdpChan = <<>>
    /\ sdpReplyChan # <<>>
    /\ sanswer' = sdpReplyChan
    /\ sdpReplyChan' = <<>>
    /\ spc' = "writeAnswer"
    /\ UNCHANGED <<rpc, rmsg, recv, nIn, scand, consumed, sdpSent, candSent,
                   envTaken, envAnswered, sdpChan, candidateChan, nOffers, nRemote, out, wsWriters, connState>>

\* answer.SDP = strings.Replace(...); payload, err := json.Marshal(answer);
\* c.WriteMessage(websocket.TextMessage, payload)
SpinWriteAnswer ==
    /\ SpinRuns /\ spc = "writeAnswer"
    /\ WriteMessage("spin", [type |-> "answer", body |-> PatchAnswer(sanswer[1]),
                             candidate |-> 0])
    /\ spc' = "relay"
    /\ UNCHANGED <<rpc, rmsg, recv, nIn, sanswer, scand, consumed, sdpSent, candSent,
                   envTaken, envAnswered, chanVars, connState>>

\* A malformed record ends the relay loop.
SpinRelayRecvBreak ==
    /\ SpinRuns /\ spc = "relay"
    /\ candidateChan = <<>>
    /\ recv # <<>>
    /\ recv' = <<>>
    /\ consumed' = Append(consumed, recv[1])
    /\ IF UnmarshalCandidate(recv[1]).ok
       THEN /\ scand' = UnmarshalCandidate(recv[1]).candidate
            /\ spc' = "forward"
       ELSE /\ spc' = "closed"
            /\ UNCHANGED scand
    /\ UNCHANGED <<rpc, rmsg, nIn, sanswer, sdpSent, candSent, envTaken, envAnswered,
                   chanVars, out, wsWriters, connState>>

\* candidateRaw := <-s.recv, once the previous send on candidateChan has been
\* received; json.Unmarshal(candidateRaw, &candidateJSON); continue on error
SpinRelayRecv ==
    /\ SpinRuns /\ spc = "relay"
    /\ candidateChan = <<>>
    /\ recv # <<>>
    /\ recv' = <<>>
    /\ consumed' = Append(consumed, recv[1])
    /\ IF UnmarshalCandidate(recv[1]).ok
       THEN /\ scand' = UnmarshalCandidate(recv[1]).candidate
            /\ spc' = "forward"
       ELSE UNCHANGED <<scand, spc>>
    /\ UNCHANGED <<rpc, rmsg, nIn, sanswer, sdpSent, candSent, envTaken, envAnswered,
                   chanVars, out, wsWriters, connState>>

\* s.candidateChan <- iceCandidate
SpinRelayForward ==
    /\ SpinRuns /\ spc = "forward"
    /\ candidateChan' = <<scand>>
    /\ candSent' = Append(candSent, scand)
    /\ spc' = "relay"
    /\ UNCHANGED <<rpc, rmsg, recv, nIn, sanswer, scand, consumed, sdpSent,
                   envTaken, envAnswered, sdpChan, sdpReplyChan, nOffers, nRemote, out, wsWriters, connState>>

Reader ==
    \/ ReaderRead
    \/ ReaderFail
    \/ ReaderSend

Spin ==
    \/ SpinConfigure
    \/ SpinAwaitOffer
    \/ SpinAwaitAnswer
    \/ SpinWriteAnswer
    \/ SpinRelayRecv
    \/ SpinRelayForward

\* -------------------------------------- the signaling session's environment
\* A body is a concatenation of at most MaxSegs segments.
Segs == {Video, <<"0">>, <<"x">>}

RECURSIVE BodiesOf(_)
BodiesOf(n) ==
    IF n = 0 THEN {<<>>}
    ELSE LET shorter == BodiesOf(n - 1)
         IN shorter \cup {b \o g : b \in shorter, g \in Segs}

Bodies == BodiesOf(MaxSegs)

\* The peer of the session takes the offer from sdpChan.
SigEnvTakeSdp ==
    /\ ~crashed /\ sdpChan # <<>>
    /\ sdpChan' = <<>>
    /\ envTaken' = envTaken + 1
    /\ UNCHANGED <<spc, rpc, rmsg, recv, nIn, sanswer, scand, consumed, sdpSent, candSent,
                   envAnswered, sdpReplyChan, candidateChan, nOffers, nRemote, out, wsWriters, connState>>

\* The peer of the session puts the answer to a taken offer on sdpReplyChan.
SigEnvAnswer ==
    /\ ~crashed /\ sdpReplyChan = <<>> /\ envAnswered < envTaken
    /\ \E b \in Bodies : sdpReplyChan' = <<b>>
    /\ envAnswered' = envAnswered + 1
    /\ UNCHANGED <<spc, rpc, rmsg, recv, nIn, sanswer, scand, consumed, sdpSent, candSent,
                   envTaken, sdpChan, candidateChan, nOffers, nRemote, out, wsWriters, connState>>

\* The peer of the session takes a candidate from candidateChan.
SigEnvTakeCandidate ==
    /\ ~crashed /\ candidateChan # <<>>
    /\ candidateChan' = <<>>
    /\ UNCHANGED <<spc, rpc, rmsg, recv, nIn, sanswer, scand, consumed, sdpSent, candSent,
                   envTaken, envAnswered, sdpChan, sdpReplyChan, nOffers, nRemote, out, wsWriters, connState>>

SigNext ==
    \/ ReaderRead /\ UNCHANGED sigFrame
    \/ ReaderFail /\ UNCHANGED sigFrame
    \/ ReaderSend /\ UNCHANGED sigFrame
    \/ SpinConfigure /\ UNCHANGED sigFrame
    \/ SpinAwaitOffer /\ UNCHANGED sigFrame
    \/ SpinAwaitAnswer /\ UNCHANGED sigFrame
    \/ SpinWriteAnswer /\ UNCHANGED sigFrame
    \/ SpinRelayRecv /\ UNCHANGED sigFrame
    \/ SpinRelayForward /\ UNCHANGED sigFrame
    \/ WriteMessageReturn("spin") /\ UNCHANGED <<vp8Vars, trkVars>>
    \/ SigEnvTakeSdp /\ UNCHANGED sigFrame
    \/ SigEnvAnswer /\ UNCHANGED sigFrame
    \/ SigEnvTakeCandidate /\ UNCHANGED sigFrame

\* ------------------------------------------------------ WebmSaver.PushVP8
Vp8Init ==
    /\ vpc = "idle"
    /\ sample = <<>>
    /\ codecCreated = FALSE
    /\ decoderInit = <<>>
    /\ decodeCalls = <<>>
    /\ keySeen = FALSE
    /\ avail = 0
    /\ imgChan = <<>>
    /\ nPushed = 0
    /\ nSamples = 0

\* The bytes of a sample whose first byte is b0 and whose four bytes from offset 6
\* hold lo + hi * 65536, little-endian (sequences are 1-based: Data[k] is
\* element k + 1).
MkSample(b0, lo, hi) ==
    <<b0, 0, 0, 0, 0, 0, lo % 256, lo \div 256, hi % 256, hi \div 256>>

\* Geometry fields, as (low half, high half): 640x480; 16383x16383 with bits
\* 14-15 and 30-31 set; 0x0 with bit 15 set; 16383x0 with bit 30 set; 640x480
\* with bit 14 and bits 30-31 set.
RawFields == {<<640, 480>>, <<65535, 65535>>, <<32768, 0>>, <<16383, 16384>>,
              <<17024, 49632>>}

\* The samples the sample builder may pop: keyframes (first byte even) and
\* inter frames (first byte odd) with a full header, and a one-byte keyframe.
SampleSet ==
    {MkSample(b0, r[1], r[2]) : b0 \in {16, 17}, r \in RawFields} \cup {<<16>>}

\* videoKeyframe := (sample.Data[0]&0x1 == 0)
VideoKeyframe(data) == data[1] % 2 = 0

\* raw := uint(Data[6]) | uint(Data[7])<<8 | uint(Data[8])<<16 | uint(Data[9])<<24,
\* kept as its two 16-bit halves (the 32-bit value is beyond the checker's
\* integers): raw = lo + hi * 65536.
RawOf(data) == [lo |-> data[7] + data[8] * 256, hi |-> data[9] + data[10] * 256]

\* The width is taken without the mask.
WidthOfUnmasked(raw) == raw.lo

\* width := int(raw & 0x3FFF)
WidthOf(raw) == raw.lo % 16384

\* height := int((raw >> 16) & 0x3FFF)
HeightOf(raw) == raw.hi % 16384

\* s.vp8Builder.Push(rtpPacket), on entry to PushVP8
VpPush ==
    /\ ~crashed /\ vpc = "idle"
    /\ nPushed < MaxPush
    /\ nPushed' = nPushed + 1
    /\ vpc' = "pop"
    /\ UNCHANGED <<sample, codecCreated, decoderInit, decodeCalls, keySeen, avail,
                   imgChan, nSamples, crashed>>

\* sample := s.vp8Builder.Pop(); if sample == nil { return }
VpPopNil ==
    /\ ~crashed /\ vpc = "pop"
    /\ vpc' = "idle"
    /\ sample' = <<>>
    /\ UNCHANGED <<codecCreated, decoderInit, decodeCalls, keySeen, avail, imgChan,
                   nPushed, nSamples, crashed>>

\* sample := s.vp8Builder.Pop(); the header of a keyframe is read (an index past
\* the end of Data panics) and, with no codec yet, InitWriter(width, height) is
\* called, which sets codecCreated whatever init_decoder returns.
VpPopSample ==
    /\ ~crashed /\ vpc = "pop"
    /\ nSamples < MaxSamples
    /\ \E d \in SampleSet :
         /\ sample' = <<d>>
         /\ nSamples' = nSamples + 1
         /\ IF VideoKeyframe(d) /\ Len(d) < 10
            THEN /\ crashed' = TRUE
                 /\ UNCHANGED <<vpc, codecCreated, decoderInit, keySeen>>
            ELSE /\ UNCHANGED crashed
                 /\ vpc' = "decode"
                 /\ keySeen' = (keySeen \/ VideoKeyframe(d))
                 /\ IF VideoKeyframe(d) /\ ~codecCreated
                    THEN /\ decoderInit' = Append(decoderInit,
                                                  <<WidthOf(RawOf(d)), HeightOf(RawOf(d))>>)
                         /\ codecCreated' = TRUE
                    ELSE UNCHANGED <<decoderInit, codecCreated>>
    /\ UNCHANGED <<decodeCalls, avail, imgChan, nPushed>>

\* codecError := C.decode_frame(&s.codecCtx, ...); continue on error. The decoder
\* may hold zero or more images after a successful decode.
VpDecode ==
    /\ ~crashed /\ vpc = "decode"
    /\ decodeCalls' = Append(decodeCalls,
                             [data |-> sample[1], created |-> codecCreated,
                              keySeen |-> keySeen])
    /\ \/ /\ vpc' = "pop"
          /\ UNCHANGED avail
       \/ /\ \E n \in 0..MaxImages : avail' = n
          /\ vpc' = "getFrame"
    /\ UNCHANGED <<sample, codecCreated, decoderInit, keySeen, imgChan, nPushed,
                   nSamples, crashed>>

\* img := C.vpx_codec_get_frame(&s.codecCtx, &iter); continue when nil, when the
\* Mat is empty or has no data pointer; else convert and s.imgChan <- goImg
VpGetFrame ==
    /\ ~crashed /\ vpc = "getFrame"
    /\ IF avail = 0
       THEN UNCHANGED <<avail, imgChan>>
       ELSE /\ avail' = avail - 1
            /\ \E matOk \in BOOLEAN :
                 IF matOk
                 THEN imgChan' = Append(imgChan, [of |-> nSamples, width |-> 0])
                 ELSE UNCHANGED imgChan
    /\ vpc' = "pop"
    /\ UNCHANGED <<sample, codecCreated, decoderInit, decodeCalls, keySeen, nPushed,
                   nSamples, crashed>>

Vp8Next ==
    \/ VpPush /\ UNCHANGED vp8Frame
    \/ VpPopNil /\ UNCHANGED vp8Frame
    \/ VpPopSample /\ UNCHANGED vp8Frame
    \/ VpDecode /\ UNCHANGED vp8Frame
    \/ VpGetFrame /\ UNCHANGED vp8Frame

\* ---------------------------------------------------------- OnTrack callback
TrkInit ==
    /\ tpc = "init"
    /\ codec = <<>>
    /\ currentFrame = <<>>
    /\ currentNil = FALSE
    /\ seenKeyFrame = FALSE
    /\ frameCount = 0
    /\ tavail = 0
    /\ rtpLog = <<>>
    /\ nSkipped = 0
    /\ submitted = <<>>
    /\ frameStartS = -1
    /\ nLost = 0

TrackWidth == 640
TrackHeight == 480

\* width, height := C.uint(640), C.uint(480); return if init_decoder fails;
\* currentFrame := []byte{}; seenKeyFrame := false; frameCount := 0
TrkStart ==
    /\ ~crashed /\ tpc = "init"
    /\ \E ok \in BOOLEAN :
         IF ok
         THEN /\ codec' = <<<<TrackWidth, TrackHeight>>>>
              /\ tpc' = "read"
         ELSE /\ tpc' = "done"
              /\ UNCHANGED codec
    /\ UNCHANGED <<currentFrame, currentNil, seenKeyFrame, frameCount, tavail, rtpLog,
                   nSkipped, submitted, frameStartS, nLost, crashed>>

\* packet, _, err := track.ReadRTP(); break on error
TrkReadError ==
    /\ ~crashed /\ tpc = "read"
    /\ tpc' = "done"
    /\ UNCHANGED <<codec, currentFrame, currentNil, seenKeyFrame, frameCount, tavail,
                   rtpLog, nSkipped, submitted, frameStartS, nLost, crashed>>

\* The network loses the packet that would come next.
TrkLose ==
    /\ ~crashed /\ tpc = "read"
    /\ nLost < MaxLost /\ rtpLog # <<>>
    /\ rtpLog[Len(rtpLog)].lostAfter = 0
    /\ nLost' = nLost + 1
    /\ rtpLog' = [rtpLog EXCEPT ![Len(rtpLog)].lostAfter = 1]
    /\ UNCHANGED <<tpc, codec, currentFrame, currentNil, seenKeyFrame, frameCount,
                   tavail, nSkipped, submitted, frameStartS, crashed>>

\* One pass of the loop body: ReadRTP returns a packet (marker bit; S bit and low
\* bit b0 of the first payload byte, once unmarshalled; a payload that does not
\* unmarshal panics); lines 325-339.
TrkPacket ==
    /\ ~crashed /\ tpc = "read"
    /\ Len(rtpLog) < MaxPackets
    /\ \E marker \in BOOLEAN, S \in 0..1, b0 \in 0..1, bad \in BOOLEAN :
         LET q == IF rtpLog = <<>> THEN 1
                  ELSE rtpLog[Len(rtpLog)].seq + 1 + rtpLog[Len(rtpLog)].lostAfter
         IN
         /\ rtpLog' = Append(rtpLog, [seq |-> q, marker |-> marker, lostAfter |-> 0])
         /\ IF bad
            THEN /\ crashed' = TRUE
                 /\ UNCHANGED <<tpc, currentFrame, currentNil, seenKeyFrame, nSkipped,
                                frameStartS>>
            ELSE /\ UNCHANGED crashed
                 /\ IF \/ ~seenKeyFrame /\ b0 = 1
                       \/ currentNil /\ S # 1
                    THEN /\ nSkipped' = nSkipped + 1
                         /\ UNCHANGED <<tpc, currentFrame, currentNil, seenKeyFrame,
                                        frameStartS>>
                    ELSE /\ seenKeyFrame' = TRUE
                         /\ currentFrame' = Append(currentFrame, q)
                         /\ currentNil' = FALSE
                         /\ frameStartS' = IF currentFrame = <<>> THEN S ELSE frameStartS
                         /\ tpc' = IF marker THEN "decode" ELSE "read"
                         /\ UNCHANGED nSkipped
    /\ UNCHANGED <<codec, frameCount, tavail, submitted, nLost>>

\* codecError := C.decode_frame(&codec, &currentFrame[0], len(currentFrame));
\* on error, continue: line 387 is not reached and currentFrame keeps its bytes.
TrkDecode ==
    /\ ~crashed /\ tpc = "decode"
    /\ \E ok \in BOOLEAN :
         /\ submitted' = Append(submitted, [frame |-> currentFrame, ok |-> ok,
                                            startS |-> frameStartS])
         /\ IF ok
            THEN /\ \E n \in 0..MaxImages : tavail' = n
                 /\ tpc' = "frames"
            ELSE /\ tpc' = "read"
                 /\ UNCHANGED tavail
    /\ UNCHANGED <<codec, currentFrame, currentNil, seenKeyFrame, frameCount, rtpLog,
                   nSkipped, frameStartS, nLost, crashed>>

\* for img := vpx_codec_get_frame(...); img != nil; ... { save; frameCount++ };
\* currentFrame = nil
TrkFrames ==
    /\ ~crashed /\ tpc = "frames"
    /\ IF tavail > 0
       THEN /\ tavail' = tavail - 1
            /\ \E matOk \in BOOLEAN :
                 frameCount' = IF matOk THEN frameCount + 1 ELSE frameCount
            /\ UNCHANGED <<tpc, currentFrame, currentNil, frameStartS>>
       ELSE /\ currentFrame' = <<>>
            /\ currentNil' = TRUE
            /\ frameStartS' = -1
            /\ tpc' = "read"
            /\ UNCHANGED <<tavail, frameCount>>
    /\ UNCHANGED <<codec, seenKeyFrame, rtpLog, nSkipped, submitted, nLost, crashed>>

TrkNext ==
    \/ TrkStart /\ UNCHANGED trkFrame
    \/ TrkReadError /\ UNCHANGED trkFrame
    \/ TrkLose /\ UNCHANGED trkFrame
    \/ TrkPacket /\ UNCHANGED trkFrame
    \/ TrkDecode /\ UNCHANGED trkFrame
    \/ TrkFrames /\ UNCHANGED trkFrame

\* The state after construction of the components.
Init ==
    /\ NegInit /\ crashed = FALSE /\ ChanInit /\ out = <<>> /\ wsWriters = {}
    /\ connState = "new" /\ SigInit
    /\ Vp8Init /\ TrkInit

\* The session alone, its peer on the three channels played by the environment.
SpecSig == Init /\ [][SigNext]_vars

\* The Go scheduler runs every goroutine that can take a step: Spin and the
\* reader goroutine are weakly fair; nothing is assumed of the transport or peer.
SpinStep == Spin /\ UNCHANGED sigFrame
ReaderStep == (ReaderSend \/ ReaderFail) /\ UNCHANGED sigFrame
SpecSigFair == SpecSig /\ WF_vars(SpinStep) /\ WF_vars(ReaderStep)

\* The negotiator alone, its peer on the three channels played by the environment.
SpecNeg == Init /\ [][NegNext]_vars

\* PushVP8 alone, called once per packet, the sample builder and the decoder
\* played by the environment.
SpecVP8 == Init /\ [][Vp8Next]_vars

\* The OnTrack callback alone, the track and the decoder played by the environment.
SpecTrack == Init /\ [][TrkNext]_vars

\* The signaling session and the negotiator together, joined by the three
\* channels and the transport: the reader goroutine, Spin, the dispatcher, the
\* candidate-discovery callback and the connection-state callback.
BridgeNext ==
    \/ ReaderRead /\ UNCHANGED sigFrame
    \/ ReaderFail /\ UNCHANGED sigFrame
    \/ ReaderSend /\ UNCHANGED sigFrame
    \/ SpinConfigure /\ UNCHANGED sigFrame
    \/ SpinAwaitOffer /\ UNCHANGED sigFrame
    \/ SpinAwaitAnswer /\ UNCHANGED sigFrame
    \/ SpinWriteAnswer /\ UNCHANGED sigFrame
    \/ SpinRelayRecv /\ UNCHANGED sigFrame
    \/ SpinRelayForward /\ UNCHANGED sigFrame
    \/ DispRecvSdp /\ UNCHANGED negFrame
    \/ DispSetRemote /\ UNCHANGED negFrame
    \/ DispCreateAnswer /\ UNCHANGED negFrame
    \/ DispPublish /\ UNCHANGED negFrame
    \/ DispSetLocal /\ UNCHANGED negFrame
    \/ DispLock /\ UNCHANGED negFrame
    \/ DispFlush /\ UNCHANGED negFrame
    \/ DispUnlock /\ UNCHANGED negFrame
    \/ DispAddCandidate /\ UNCHANGED negFrame
    \/ CallbackInvoke /\ UNCHANGED negFrame
    \/ CallbackNil /\ UNCHANGED negFrame
    \/ CallbackLock /\ UNCHANGED negFrame
    \/ CallbackRead /\ UNCHANGED negFrame
    \/ CallbackBranch /\ UNCHANGED negFrame
    \/ CallbackUnlock /\ UNCHANGED negFrame
    \/ WriteMessageReturn("spin") /\ UNCHANGED <<vp8Vars, trkVars>>
    \/ WriteMessageReturn("flush") /\ UNCHANGED <<vp8Vars, trkVars>>
    \/ WriteMessageReturn("callback") /\ UNCHANGED <<vp8Vars, trkVars>>

SpecBridge == Init /\ [][BridgeNext]_vars

\* The tasks the connection-state callback ends: the reader goroutine, Spin and
\* the dispatcher, with the callback itself, which the engine may invoke at any
\* moment.
ProcessNext ==
    \/ ReaderRead /\ UNCHANGED sigFrame
    \/ ReaderFail /\ UNCHANGED sigFrame
    \/ ReaderSend /\ UNCHANGED sigFrame
    \/ SpinConfigure /\ UNCHANGED sigFrame
    \/ SpinAwaitOffer /\ UNCHANGED sigFrame
    \/ SpinAwaitAnswer /\ UNCHANGED sigFrame
    \/ SpinWriteAnswer /\ UNCHANGED sigFrame
    \/ SpinRelayRecv /\ UNCHANGED sigFrame
    \/ SpinRelayForward /\ UNCHANGED sigFrame
    \/ WriteMessageReturn("spin") /\ UNCHANGED <<vp8Vars, trkVars>>
    \/ DispRecvSdp /\ UNCHANGED negFrame
    \/ DispSetRemote /\ UNCHANGED negFrame
    \/ DispCreateAnswer /\ UNCHANGED negFrame
    \/ DispPublish /\ UNCHANGED negFrame
    \/ DispSetLocal /\ UNCHANGED negFrame
    \/ DispLock /\ UNCHANGED negFrame
    \/ DispFlush /\ UNCHANGED negFrame
    \/ DispUnlock /\ UNCHANGED negFrame
    \/ DispAddCandidate /\ UNCHANGED negFrame
    \/ OnConnectionStateChange /\ UNCHANGED negFrame

SpecProcess == Init /\ [][ProcessNext]_vars

\* ------------------------------------------------ claims on the negotiator
\* The candidates passed to signalCandidate by caller `who`, in call order.
RECURSIVE SignalledBy(_, _)
SignalledBy(log, who) ==
    IF log = <<>> THEN <<>>
    ELSE LET rest == SignalledBy(Tail(log), who)
         IN IF Head(log).by = who THEN <<Head(log).c>> \o rest ELSE rest

\* The callback invoked with candidate c has returned.
CallbackDone(c) == c <= nDiscovered /\ ~(c = cc /\ cpc \in {"lock", "read", "branch"})

\* The dispatcher has finished the flush of its first sdp event.
FirstFlushDone == nEvents = 1 /\ dpc \in {"unlock", "select"}

IsPrefix(s, t) == Len(s) <= Len(t) /\ s = SubSeq(t, 1, Len(s))

\* C1: with one remote-description event, in every interleaving of the discovery
\* callback and the dispatcher: a candidate whose callback found the remote
\* description unset is in the pending buffer, no candidate whose callback has
\* returned is lost, the buffer is in discovery order, and the flush passes the
\* buffered candidates to signalCandidate in buffer order, each once, all of them
\* by the time it ends; no candidate is signalled twice.
C1_BufferedFlushedInOrderOnce ==
    /\ \A c \in 1..nDiscovered :
         CallbackDone(c) =>
           \/ c \in Range(pendingCandidates)
           \/ \E i \in 1..Len(signalled) : signalled[i].c = c
    /\ (cpc = "unlock" /\ cdesc = 0) => cc \in Range(pendingCandidates)
    /\ \A i, j \in 1..Len(pendingCandidates) :
         i < j => pendingCandidates[i] < pendingCandidates[j]
    /\ nEvents <= 1 =>
         /\ IsPrefix(SignalledBy(signalled, "flush"), pendingCandidates)
         /\ \A i, j \in 1..Len(signalled) : i < j => signalled[i].c # signalled[j].c
    /\ FirstFlushDone => SignalledBy(signalled, "flush") = pendingCandidates

\* C1 witness: the first flush has ended after two candidates were buffered and
\* flushed, and a later candidate was signalled by the callback.
C1_Witness ==
    /\ FirstFlushDone /\ dpc = "select"
    /\ pendingCandidates = <<1, 2>>
    /\ SignalledBy(signalled, "flush") = <<1, 2>>
    /\ SignalledBy(signalled, "callback") = <<3>>

\* C2: over any sequence of dispatcher events, a second remote-description event
\* included, no candidate is passed to signalCandidate twice.
C2_DrainedOnce ==
    \A i, j \in 1..Len(signalled) : i < j => signalled[i].c # signalled[j].c

\* C3 as claimed: a candidate discovered once the remote description is set is
\* signalled inside the callback and not appended, and the pending buffer never
\* grows while the remote description is set.
C3_NeverGrowsOnceSet ==
    [][/\ (cpc = "branch" /\ cpc' = "unlock" /\ cafter) =>
            /\ signalled' = Append(signalled, [c |-> cc, by |-> "callback"])
            /\ pendingCandidates' = pendingCandidates
       /\ remoteDescription # 0 => Len(pendingCandidates') <= Len(pendingCandidates)]_vars

\* C3 as amended: a candidate discovered once the remote description is set is
\* signalled inside the callback and not appended; the buffer grows only by the
\* candidate of a callback that was invoked before the description was set and
\* read it as unset, and never once the dispatcher has taken the lock to flush.
C3_GrowsOnlyBeforeFlush ==
    [][/\ (cpc = "branch" /\ cpc' = "unlock" /\ cafter) =>
            /\ signalled' = Append(signalled, [c |-> cc, by |-> "callback"])
            /\ pendingCandidates' = pendingCandidates
       /\ pendingCandidates' # pendingCandidates =>
            /\ pendingCandidates' = Append(pendingCandidates, cc)
            /\ cpc = "branch" /\ cdesc = 0 /\ ~cafter
            /\ flushIdx = 0]_vars

\* C3 witness: the callback of a candidate discovered after the remote description
\* was set has just signalled it, the buffer holding an earlier candidate.
C3_Witness ==
    /\ cpc = "unlock" /\ cafter /\ remoteDescription # 0
    /\ pendingCandidates = <<1>>
    /\ signalled # <<>>
    /\ signalled[Len(signalled)] = [c |-> cc, by |-> "callback"]

\* Position of step s in the sequence order (0 when absent).
Rank(s, order) ==
    IF \E k \in 1..Len(order) : order[k] = s
    THEN CHOOSE k \in 1..Len(order) : order[k] = s
    ELSE 0

\* log runs through the steps of order from the first, skipping none, with the
\* flush step taken once per buffered candidate (zero or more times).
FollowsOrder(log, order) ==
    /\ log # <<>> => log[1] = order[1]
    /\ \A i \in 1..Len(log) : Rank(log[i], order) > 0
    /\ \A i \in 1..(Len(log) - 1) :
         \/ Rank(log[i + 1], order) = Rank(log[i], order) + 1
         \/ log[i] = "flush" /\ log[i + 1] = "flush"
         \/ log[i] = "lock" /\ log[i + 1] = "unlock"

\* C8 as claimed: on a remote-description event the dispatcher applies the remote
\* description, requests an answer, applies it as the local description, publishes
\* it, then flushes under the lock; the answer is published only after it has been
\* applied as the local description.
C8_PublishAfterSetLocal ==
    /\ FollowsOrder(dlog, <<"setRemote", "createAnswer", "setLocal", "publish",
                            "lock", "flush", "unlock">>)
    /\ \A i \in 1..Len(dlog) :
         dlog[i] = "publish" => \E j \in 1..(i - 1) : dlog[j] = "setLocal"

\* C8 as amended: the dispatcher applies the remote description, requests an
\* answer, publishes it on the reply channel, applies it as the local description
\* once the answer has been taken, then flushes under the lock; the answer is
\* published before it is applied as the local description.
C8_SetLocalAfterPublish ==
    /\ FollowsOrder(dlog, <<"setRemote", "createAnswer", "publish", "setLocal",
                            "lock", "flush", "unlock">>)
    /\ \A i \in 1..Len(dlog) :
         dlog[i] = "setLocal" => \E j \in 1..(i - 1) : dlog[j] = "publish"
    /\ (\E i \in 1..Len(dlog) : dlog[i] = "publish") /\ localDescription = <<>>
         => dpc \in {"setLocal"}
    /\ dpc \in {"flush", "unlock"} => candidatesMux = "dispatcher"

\* C8 witness: a remote-description event ran to its end with two candidates flushed.
C8_Witness ==
    /\ dlog = <<"setRemote", "createAnswer", "publish", "setLocal",
                "lock", "flush", "flush", "unlock">>
    /\ dpc = "select" /\ localDescription # <<>>

\* --------------------------------------------- claims on the signaling session
\* The answer has been written to the transport.
AnswerWritten == \E i \in 1..Len(out) : out[i].type = "answer"

\* C4: the handshake runs in three phases, in order: the configure directive is
\* the first write and precedes the first receive from s.recv; at most one
\* message, the first one received, is decoded as the offer and sent on sdpChan,
\* and exactly one by the time the answer is written; the answer is written only
\* after the offer was sent and taken and an answer was received on sdpReplyChan;
\* nothing is received for, or sent on, candidateChan before the answer is written.
C4_ThreePhaseOrder ==
    /\ consumed # <<>> => (out # <<>> /\ out[1].type = "configure")
    /\ \A i \in 1..Len(out) : out[i].type = (<<"configure", "answer">>)[i]
    /\ Len(sdpSent) <= 1
    /\ sdpSent # <<>> => (consumed # <<>> /\ consumed[1].wf /\ sdpSent[1] = consumed[1].val * (IF consumed[1].typ = "offer" THEN 1 ELSE 0))
    /\ AnswerWritten =>
         /\ Len(sdpSent) = 1 /\ envTaken = 1 /\ sdpChan = <<>>
         /\ sanswer # <<>> /\ envAnswered = 1
    /\ (candSent # <<>> \/ spc \in {"relay", "forward"} \/ Len(consumed) >= 2)
         => AnswerWritten

\* C4 witness: configure, offer, answer and one relayed candidate, in that order.
C4_Witness ==
    /\ Len(out) = 2 /\ out[2].type = "answer"
    /\ Len(sdpSent) = 1
    /\ Len(candSent) = 1

\* C5: a transport read failure while the session awaits the offer ends the
\* session: Spin leaves AwaitOffer and reaches Closed.
C5_ReadFailureCloses ==
    (rpc = "exited" /\ spc = "awaitOffer" /\ recv = <<>>) ~> (spc = "closed")

\* The candidates of the well-formed records of log, in order.
RECURSIVE WellFormedCandidates(_)
WellFormedCandidates(log) ==
    IF log = <<>> THEN <<>>
    ELSE LET m == Head(log)
             rest == WellFormedCandidates(Tail(log))
         IN IF m.wf
            THEN <<IF m.typ = "ice_candidate" THEN m.val ELSE 0>> \o rest
            ELSE rest

\* C6: in the relay phase the candidates sent on candidateChan (with the one Spin
\* is about to send) are exactly the well-formed records received after the
\* offer, in the order received, no malformed record among them; and the relay
\* loop, once entered, is never left.
C6_MalformedSkipped ==
    /\ candSent \o (IF spc = "forward" THEN <<scand>> ELSE <<>>)
         = WellFormedCandidates(SubSeq(consumed, 2, Len(consumed)))
    /\ AnswerWritten => spc \in {"relay", "forward"}

\* C6 witness: a malformed record was received in the relay phase and the valid
\* candidate that followed it was sent on candidateChan.
C6_Witness ==
    /\ Len(consumed) = 3
    /\ ~consumed[2].wf
    /\ consumed[3].wf /\ consumed[3].typ = "ice_candidate"
    /\ candSent = <<3>>

\* The positions at which "m=video 0" occurs in body b.
PortOccurrences(b) ==
    {i \in 1..Len(b) :
        /\ i + 8 <= Len(b)
        /\ SubSeq(b, i, i + 8) = <<"m", "=", "v", "i", "d", "e", "o", " ", "0">>}

\* t is b with the "0" of the first "m=video 0" changed to "9" and nothing else
\* changed; t is b when b has no "m=video 0".
FirstOnlyPatched(b, t) ==
    /\ Len(t) = Len(b)
    /\ PortOccurrences(b) = {} => t = b
    /\ PortOccurrences(b) # {} =>
         LET k == CHOOSE i \in PortOccurrences(b) : \A j \in PortOccurrences(b) : i <= j
         IN /\ t[k + 8] = "9"
            /\ \A j \in 1..Len(b) : j # k + 8 => t[j] = b[j]

\* C7: the answer written to the transport is the answer received on the reply
\* channel with only its first "m=video 0" rewritten to "m=video 9"; later
\* occurrences stay, and a body without the substring is sent unchanged.
C7_FirstPortPatched ==
    \A i \in 1..Len(out) :
        out[i].type = "answer" => FirstOnlyPatched(sanswer[1], out[i].body)

\* C7 witness: an answer with two "m=video 0" was written with the first one
\* rewritten and the second one kept.
C7_Witness ==
    /\ AnswerWritten
    /\ sanswer = <<OldPort \o OldPort>>
    /\ out[2].body = NewPort \o OldPort

\* ------------------------------------------------- claims on frame assembly
\* C9: no sample is submitted to the decoder before a keyframe sample has been
\* observed and the decoder has been initialized with that keyframe's geometry:
\* every decode_frame call of PushVP8 is made with a keyframe seen and the codec
\* created.
C9_NoDecodeBeforeKeyframe ==
    \A i \in 1..Len(decodeCalls) :
        /\ decodeCalls[i].keySeen
        /\ decodeCalls[i].created
        /\ decoderInit # <<>>

\* C10: for the packets (1,false),(2,false),(3,true),(5,false),(6,true), packet 4
\* lost and none of the five dropped by the keyframe and start-fragment checks,
\* the samples submitted to the decoder are {1,2,3} and then {5,6}.
C10_GapDoesNotBlock ==
    (/\ ~crashed /\ tpc = "read" /\ nSkipped = 0
     /\ [i \in 1..Len(rtpLog) |-> <<rtpLog[i].seq, rtpLog[i].marker>>]
          = <<<<1, FALSE>>, <<2, FALSE>>, <<3, TRUE>>, <<5, FALSE>>, <<6, TRUE>>>>)
    => [i \in 1..Len(submitted) |-> submitted[i].frame] = <<<<1, 2, 3>>, <<5, 6>>>>

\* C11: a decode failure does not stop reassembly in the direct path: when the
\* decoder rejects a submitted sample, the next submission is the next completed
\* sample, made of packets read after the rejected one and of none of its packets.
C11_NextSampleAfterFailure ==
    \A i \in 1..(Len(submitted) - 1) :
        ~submitted[i].ok =>
            Range(submitted[i + 1].frame) \cap Range(submitted[i].frame) = {}

\* Bits 0-13 and bits 16-29 of the little-endian field at payload offset 6, taken
\* from its bytes: the low byte and the low six bits of the next one.
FieldWidth(data) == data[7] + 256 * (data[8] % 64)
FieldHeight(data) == data[9] + 256 * (data[10] % 64)

\* C12: a keyframe sample popped while no decoder exists initializes the decoder
\* with exactly the width in bits 0-13 and the height in bits 16-29 of its geometry
\* field, whatever bits 14-15 and 30-31 hold; and the decoder is initialized by
\* nothing else.
C12_InitWithKeyframeGeometry ==
    [][/\ (vpc = "pop" /\ vpc' = "decode" /\ VideoKeyframe(sample'[1]) /\ ~codecCreated)
            => /\ decoderInit' = Append(decoderInit, <<FieldWidth(sample'[1]),
                                                       FieldHeight(sample'[1])>>)
               /\ codecCreated'
       /\ decoderInit' # decoderInit
            => /\ vpc = "pop" /\ vpc' = "decode" /\ ~codecCreated
               /\ VideoKeyframe(sample'[1])
               /\ FieldWidth(sample'[1]) \in 0..16383
               /\ FieldHeight(sample'[1]) \in 0..16383]_vars

\* C12 witness: a keyframe whose field encodes 640 and 480 with bit 14 and bits
\* 30-31 set has initialized the decoder with (640, 480).
C12_Witness ==
    /\ vpc = "decode"
    /\ sample = <<MkSample(16, 17024, 49632)>>
    /\ decoderInit = <<<<640, 480>>>>

\* C13: in the direct path the accumulation buffer holds payload bytes only of a
\* sample that began with a fragment carrying the start flag, the first frame
\* after track arrival included.
C13_AccumulatesOnlyFromStart ==
    currentFrame # <<>> => frameStartS = 1

\* C14: after a successful decode every image the decoder makes available is
\* retrieved before PushVP8 goes on to the next sample: the decoder holds an
\* unretrieved image only while PushVP8 is at its vpx_codec_get_frame call.
C14_EveryImageRetrieved ==
    avail > 0 => vpc = "getFrame"

\* The packet with sequence number q carried the marker (terminal-fragment) flag.
MarkerOf(q) == \E i \in 1..Len(rtpLog) : rtpLog[i].seq = q /\ rtpLog[i].marker

\* C16: every sample the direct path submits to the decoder is one frame: it
\* begins with a start fragment, ends with a marker packet and holds no other
\* marker packet, so it has no bytes of an earlier frame; and the buffer is empty
\* again once a decode, failed or not, has been dealt with.
C16_OneFramePerSample ==
    /\ \A i \in 1..Len(submitted) :
         LET f == submitted[i].frame
         IN /\ submitted[i].startS = 1
            /\ MarkerOf(f[Len(f)])
            /\ \A k \in 1..(Len(f) - 1) : ~MarkerOf(f[k])
    /\ (tpc = "read" /\ submitted # <<>>
        /\ MarkerOf(rtpLog[Len(rtpLog)].seq) /\ currentFrame # <<>>)
         => currentFrame[Len(currentFrame)] # rtpLog[Len(rtpLog)].seq

\* ------------------------------------------------ claims on the whole bridge
\* A step of any task of the process: the reader goroutine, Spin, the dispatcher,
\* the callbacks, PushVP8 and the media reader.
AnyTaskStep == ProcessNext \/ BridgeNext \/ SigNext \/ NegNext \/ Vp8Next \/ TrkNext

\* C15: once the engine has reported connection state failed or closed the
\* process has terminated, and no task can take a step.
C15_TerminalStateEndsProcess ==
    connState \in {"failed", "closed"} => (crashed /\ ~ENABLED AnyTaskStep)

\* C15 witness: failed was reported while Spin was about to write the answer, the
\* dispatcher about to set the local description and the reader goroutine about
\* to hand a message to Spin.
C15_Witness ==
    /\ connState = "failed"
    /\ spc = "writeAnswer"
    /\ dpc = "setLocal"
    /\ rpc = "send"

\* The callback is between its Lock and its deferred Unlock; the dispatcher is
\* between its Lock and its Unlock.
CallbackInLock == cpc \in {"read", "branch", "unlock"}
DispatcherInLock == dpc \in {"flush", "unlock"}

\* The lock is held by whoever is inside its critical section, by one task at a
\* time, and is free when nobody is.
LockDiscipline ==
    /\ CallbackInLock => candidatesMux = "callback"
    /\ DispatcherInLock => candidatesMux = "dispatcher"
    /\ ~(CallbackInLock /\ DispatcherInLock)
    /\ (~CallbackInLock /\ ~DispatcherInLock) => candidatesMux = "free"

\* C17: every append to the pending buffer is made by the callback holding the
\* lock, every read of the flush (each candidate it signals) by the dispatcher
\* holding the lock; the two never hold it together; and the lock is free again
\* after every append and every flush that completes.
C17_BufferUnderLock ==
    [][/\ LockDiscipline /\ LockDiscipline'
       /\ pendingCandidates' # pendingCandidates
            => candidatesMux = "callback" /\ candidatesMux' = "callback"
       /\ SignalledBy(signalled', "flush") # SignalledBy(signalled, "flush")
            => candidatesMux = "dispatcher" /\ candidatesMux' = "dispatcher"
       /\ (cpc = "unlock" /\ cpc' = "idle") => candidatesMux' = "free"
       /\ (dpc = "unlock" /\ dpc' = "select") => candidatesMux' = "free"]_vars

\* C17 witness: the dispatcher is in its flush, the lock held, a buffered
\* candidate signalled, while the callback of a later candidate waits for the lock.
C17_Witness ==
    /\ dpc = "flush" /\ candidatesMux = "dispatcher"
    /\ SignalledBy(signalled, "flush") # <<>>
    /\ cpc = "lock"

\* C18: at most one task is inside a write to the signaling transport at any
\* moment.
C18_SingleWriter ==
    Cardinality(wsWriters) <= 1

\* C19: on the transport the answer precedes every outbound ice_candidate
\* message: no candidate is written before the answer has been written.
C19_AnswerBeforeCandidates ==
    \A i \in 1..Len(out) :
        out[i].type = "ice_candidate" =>
            \E j \in 1..(i - 1) : out[j].type = "answer"

\* C20: with the session and the negotiator running together, the dispatcher
\* takes a remote candidate from the candidate channel, and applies it to the
\* engine, only when the remote description has been applied, the local
\* description set and the flush of the pending candidates completed, the lock
\* released.
C20_CandidateAfterNegotiation ==
    [][(\/ candidateChan # <<>> /\ candidateChan' = <<>>
        \/ engineCandidates' # engineCandidates)
          => /\ remoteDescription # 0
             /\ localDescription # <<>>
             /\ nEvents >= 1 /\ dpc = "select"
             /\ dlog # <<>> /\ dlog[Len(dlog)] = "unlock"
             /\ candidatesMux # "dispatcher"
             /\ SignalledBy(signalled, "flush") = pendingCandidates]_vars

\* C20 witness: a remote candidate has been applied to the engine after a flush
\* that signalled a buffered local candidate.
C20_Witness ==
    /\ engineCandidates # <<>>
    /\ SignalledBy(signalled, "flush") # <<>>
    /\ localDescription # <<>>

====
